---- MODULE Spec2Model ----
(***************************************************************************)
(* Model of the two FastAPI programs of the repository:                    *)
(*   Basic/app.py            the Items service (three routes, one model)   *)
(*   FastAPIProject/main.py  the LMS application that mounts three routers *)
(* Text is modelled as a sequence of one-character strings, an optional    *)
(* value (Python None / a value) as a sequence of length 0 or 1.           *)
(***************************************************************************)
EXTENDS Integers, Sequences, FiniteSets, TLC

VARIABLES apps, lmsPc, pc, request, matched, args, invoked, response

vars == <<apps, lmsPc, pc, request, matched, args, invoked, response>>

\* the threads of the server that run requests
Workers == {"w1", "w2"}

----------------------------------------------------------------------------
(* Bounds of the explored inputs *)

MaxSegLen == 2
MaxQLen == 4
MaxStrLen == 1
ConcQLen == 3

SegChars == {"0", "7", "-", "x"}
QChars == {"a", "b"}
StrChars == {"p", "e"}

None == <<>>
Some(x) == <<x>>

RECURSIVE TextsUpTo(_, _)
TextsUpTo(chars, n) ==
    IF n = 0 THEN {<<>>}
    ELSE LET shorter == TextsUpTo(chars, n - 1)
         IN  shorter \cup {Append(t, c) : t \in shorter, c \in chars}

----------------------------------------------------------------------------
(* The framework's conversion of a path segment to int (item_id: int) *)

Digits == <<"0", "1", "2", "3", "4", "5", "6", "7", "8", "9">>

IsDigit(c) == \E d \in 1..10 : Digits[d] = c

DigitVal(c) == (CHOOSE d \in 1..10 : Digits[d] = c) - 1

AllDigits(s) == Len(s) >= 1 /\ \A i \in 1..Len(s) : IsDigit(s[i])

RECURSIVE NatVal(_)
NatVal(s) ==
    IF s = <<>> THEN 0
    ELSE 10 * NatVal(SubSeq(s, 1, Len(s) - 1)) + DigitVal(s[Len(s)])

\* int(text) over the characters used here: an optional "-" followed by one
\* or more decimal digits (leading zeros allowed, "-0" is 0)
ParsesAsInt(s) ==
    \/ AllDigits(s)
    \/ Len(s) >= 2 /\ s[1] = "-" /\ AllDigits(Tail(s))

IntOf(s) == IF s[1] = "-" THEN 0 - NatVal(Tail(s)) ELSE NatVal(s)

----------------------------------------------------------------------------
(* Applications and their route tables *)

Route(methods, prefix, param, endpoint, module) ==
    [methods |-> methods, prefix |-> prefix, param |-> param,
     endpoint |-> endpoint, module |-> module]

\* FastAPI(...): the constructor registers the documentation routes itself
FastAPI(title, description, version) ==
    [title |-> title, description |-> description, version |-> version,
     routes |-> << Route({"GET", "HEAD"}, "/openapi.json", None, "openapi", "fastapi"),
                   Route({"GET", "HEAD"}, "/docs", None, "swagger_ui_html", "fastapi"),
                   Route({"GET", "HEAD"}, "/docs/oauth2-redirect", None,
                         "swagger_ui_redirect", "fastapi"),
                   Route({"GET", "HEAD"}, "/redoc", None, "redoc_html", "fastapi") >>]

add_api_route(app, route) == [app EXCEPT !.routes = Append(@, route)]

include_router(app, router) == [app EXCEPT !.routes = @ \o router]

----------------------------------------------------------------------------
(* Basic/app.py: the Items service *)

\* faulty variant: another greeting
read_root_lowercase == [Hello |-> "world"]

\* def read_root()
read_root == [Hello |-> "World"]

\* faulty variant: the query parameter is not passed on
read_item_drops_q(item_id, q) == [item_id |-> item_id, q |-> None]

\* def read_item(item_id: int, q: str = Query(None, min_length=3))
read_item(item_id, q) == [item_id |-> item_id, q |-> q]

\* Query(None, min_length=3)
q_min_length == 3

q_default == None

\* class Item(BaseModel): name: str; description: str
ItemFields == {"name", "description"}

Item(name, description) == [name |-> name, description |-> description]

\* faulty variant: the two fields exchanged
create_item_swapped(item) == [name |-> item.description, description |-> item.name]

\* faulty variant: a module-level "last item" shared by the workers
create_item_shared(item) ==
    IF \E w \in Workers : invoked[w] # None /\ invoked[w][1].endpoint = "create_item"
    THEN LET w == CHOOSE v \in Workers :
                    invoked[v] # None /\ invoked[v][1].endpoint = "create_item"
         IN  [name |-> invoked[w][1].args.item.name,
              description |-> invoked[w][1].args.item.description]
    ELSE [name |-> item.name, description |-> item.description]

\* def create_item(item: Item = Body(...))
create_item(item) == [name |-> item.name, description |-> item.description]

\* app = FastAPI() followed by the three route decorators, in file order
basic_app ==
    LET a0 == FastAPI("FastAPI", "", "0.1.0")
        a1 == add_api_route(a0, Route({"GET"}, "/", None, "read_root", "app"))
        a2 == add_api_route(a1, Route({"GET"}, "/items/", Some("item_id"),
                                      "read_item", "app"))
    IN  add_api_route(a2, Route({"POST"}, "/items/", None, "create_item", "app"))

----------------------------------------------------------------------------
(* FastAPIProject/main.py: the LMS application *)

lms_app ==
    FastAPI("Fast API LMS", "LMS for managing students and courses.", "0.0.1")

\* api/users.py, api/courses.py, api/sections.py are not part of the sources:
\* each router is taken to hold one route under its own prefix
users_router == << Route({"GET"}, "/users", None, "users", "api.users") >>

courses_router == << Route({"GET"}, "/courses", None, "courses", "api.courses") >>

sections_router == << Route({"GET"}, "/sections", None, "sections", "api.sections") >>

LmsGroups == {"api.users", "api.courses", "api.sections"}

----------------------------------------------------------------------------
(* JSON values of a request body *)

JString(t) == [type |-> "string", text |-> t]

JNumber(t) == [type |-> "number", text |-> t]

JNull == [type |-> "null", text |-> <<>>]

----------------------------------------------------------------------------
(* Request validation, as declared by the endpoint signatures *)

\* faulty variant: a bare "-" is taken for a number
item_id_errors_bare_sign(req) ==
    IF ParsesAsInt(req.path.param) \/ req.path.param = <<"-">>
    THEN {} ELSE {<<"path", "item_id">>}

\* item_id: int (path)
item_id_errors(req) ==
    IF ParsesAsInt(req.path.param) THEN {} ELSE {<<"path", "item_id">>}

\* faulty variant: an empty q is treated like an omitted q
q_errors_blank_as_missing(req) ==
    IF req.query # None /\ req.query[1] # <<>> /\ Len(req.query[1]) < q_min_length
    THEN {<<"query", "q">>} ELSE {}

\* faulty variant: min_length is not enforced
q_errors_unchecked(req) == {}

\* q: str = Query(None, min_length=3)
q_errors(req) ==
    IF req.query # None /\ Len(req.query[1]) < q_min_length
    THEN {<<"query", "q">>} ELSE {}

q_value(req) == IF req.query = None THEN q_default ELSE Some(req.query[1])

\* faulty variant: any JSON value is taken for a string
item_errors_presence_only(req) ==
    IF req.body = None THEN {<<"body">>}
    ELSE {<<"body", f>> : f \in {g \in ItemFields : g \notin DOMAIN req.body[1]}}

\* faulty variant: fields the model does not declare are refused
item_errors_extra_forbidden(req) ==
    IF req.body = None THEN {<<"body">>}
    ELSE LET obj == req.body[1]
         IN  {<<"body", f>> : f \in {g \in DOMAIN obj \cup ItemFields :
                 g \notin DOMAIN obj \/ g \notin ItemFields
                    \/ obj[g].type # "string"}}

\* item: Item = Body(...): both fields required, each a JSON string (a str
\* field of pydantic 2 converts no number; pydantic 1 would turn 7 into "7");
\* fields the model does not declare are ignored
item_errors(req) ==
    IF req.body = None THEN {<<"body">>}
    ELSE LET obj == req.body[1]
         IN  {<<"body", f>> : f \in {g \in ItemFields :
                 g \notin DOMAIN obj \/ obj[g].type # "string"}}

item_value(req) ==
    LET obj == req.body[1] IN Item(obj["name"].text, obj["description"].text)

Errors(endpoint, req) ==
    CASE endpoint = "read_item" -> item_id_errors(req) \cup q_errors(req)
      [] endpoint = "create_item" -> item_errors(req)
      [] OTHER -> {}

Values(endpoint, req) ==
    CASE endpoint = "read_item" ->
            [item_id |-> IntOf(req.path.param), q |-> q_value(req)]
      [] endpoint = "create_item" -> [item |-> item_value(req)]
      [] OTHER -> <<>>

Call(endpoint, a) ==
    CASE endpoint = "read_root" -> read_root
      [] endpoint = "read_item" -> read_item(a.item_id, a.q)
      [] endpoint = "create_item" -> create_item(a.item)
      [] OTHER -> [served_by |-> endpoint]

----------------------------------------------------------------------------
(* Routing *)

PathMatches(route, path) ==
    /\ route.prefix = path.prefix
    /\ (route.param # None) <=> (path.param # <<>>)

FullMatches(app, req) ==
    {i \in 1..Len(app.routes) :
        PathMatches(app.routes[i], req.path) /\ req.method \in app.routes[i].methods}

PartialMatches(app, req) ==
    {i \in 1..Len(app.routes) : PathMatches(app.routes[i], req.path)}

Min(S) == CHOOSE i \in S : \A j \in S : i <= j

----------------------------------------------------------------------------
(* The requests the model sends *)

Path(prefix, param) == [prefix |-> prefix, param |-> param]

Request(app, method, path, query, body) ==
    [app |-> app, method |-> method, path |-> path, query |-> query, body |-> body]

Options(S) == {None} \cup {Some(x) : x \in S}

Segments == TextsUpTo(SegChars, MaxSegLen) \ {<<>>}

QueryOptions == Options(TextsUpTo(QChars, MaxQLen))

BodyKeys == ItemFields \cup {"price"}

BodyValues ==
    {JString(t) : t \in TextsUpTo(StrChars, MaxStrLen)} \cup {JNumber(<<"7">>), JNull}

Objects(keys, values) == UNION {[K -> values] : K \in SUBSET keys}

ItemsRequests ==
    {Request("basic", "GET", Path("/", <<>>), q, None) : q \in QueryOptions}
    \cup {Request("basic", "GET", Path("/items/", s), q, None) :
            s \in Segments, q \in QueryOptions}
    \cup {Request("basic", "POST", Path("/items/", <<>>), None, b) :
            b \in Options(Objects(BodyKeys, BodyValues))}
    \cup {Request("basic", m, Path(p, <<>>), None, None) :
            m \in {"GET", "POST"},
            p \in {"/", "/items/", "/docs", "/openapi.json", "/missing"}}

LmsRequests ==
    {Request("lms", m, Path(p, <<>>), None, None) :
        m \in {"GET", "POST"},
        p \in {"/", "/users", "/courses", "/sections", "/openapi.json", "/docs",
               "/docs/oauth2-redirect", "/redoc", "/missing"}}

Requests == ItemsRequests \cup LmsRequests

\* a smaller set of Items requests for the runs with two requests in flight
ConcRequests ==
    {Request("basic", "GET", Path("/", <<>>), q, None) :
        q \in Options(TextsUpTo({"a"}, ConcQLen))}
    \cup {Request("basic", "GET", Path("/items/", s), q, None) :
            s \in {<<"7">>, <<"-", "7">>, <<"x">>},
            q \in Options(TextsUpTo({"a"}, ConcQLen))}
    \cup {Request("basic", "POST", Path("/items/", <<>>), None, b) :
            b \in Options(Objects(ItemFields, {JString(<<"p">>), JString(<<"e">>),
                                               JNumber(<<"7">>)}))}

----------------------------------------------------------------------------
(* State *)

Init ==
    /\ apps = [basic |-> basic_app, lms |-> lms_app]
    /\ lmsPc = "users"
    /\ pc = [w \in Workers |-> "idle"]
    /\ request = [w \in Workers |-> None]
    /\ matched = [w \in Workers |-> None]
    /\ args = [w \in Workers |-> None]
    /\ invoked = [w \in Workers |-> None]
    /\ response = [w \in Workers |-> None]

Response(status, body) == [status |-> status, body |-> body]

\* main.py line 13
IncludeUsers ==
    /\ lmsPc = "users"
    /\ apps' = [apps EXCEPT !.lms = include_router(@, users_router)]
    /\ lmsPc' = "courses"
    /\ UNCHANGED <<pc, request, matched, args, invoked, response>>

\* main.py line 14
IncludeCourses ==
    /\ lmsPc = "courses"
    /\ apps' = [apps EXCEPT !.lms = include_router(@, courses_router)]
    /\ lmsPc' = "sections"
    /\ UNCHANGED <<pc, request, matched, args, invoked, response>>

\* faulty variant: the third router is not mounted
IncludeSectionsSkipped ==
    /\ lmsPc = "sections"
    /\ lmsPc' = "serving"
    /\ UNCHANGED <<apps, pc, request, matched, args, invoked, response>>

\* main.py line 15
IncludeSections ==
    /\ lmsPc = "sections"
    /\ apps' = [apps EXCEPT !.lms = include_router(@, sections_router)]
    /\ lmsPc' = "serving"
    /\ UNCHANGED <<pc, request, matched, args, invoked, response>>

\* a worker takes the next request; the LMS serves once main.py has run
Receive(w, reqs) ==
    /\ pc[w] = "idle"
    /\ \E req \in reqs :
        /\ req.app = "lms" => lmsPc = "serving"
        /\ request' = [request EXCEPT ![w] = Some(req)]
    /\ pc' = [pc EXCEPT ![w] = "received"]
    /\ UNCHANGED <<apps, lmsPc, matched, args, invoked, response>>

\* the router picks the first route matching path and method
Dispatch(w) ==
    /\ pc[w] = "received"
    /\ LET req == request[w][1]
           app == apps[req.app]
           full == FullMatches(app, req)
       IN  IF full # {}
           THEN /\ matched' = [matched EXCEPT ![w] = Some(app.routes[Min(full)])]
                /\ pc' = [pc EXCEPT ![w] = "matched"]
                /\ UNCHANGED response
           ELSE /\ response' = [response EXCEPT ![w] =
                        Some(Response(IF PartialMatches(app, req) # {} THEN 405 ELSE 404,
                                      <<>>))]
                /\ pc' = [pc EXCEPT ![w] = "done"]
                /\ UNCHANGED matched
    /\ UNCHANGED <<apps, lmsPc, request, args, invoked>>

\* the declared parameters are validated before the endpoint is called
Validate(w) ==
    /\ pc[w] = "matched"
    /\ LET req == request[w][1]
           endpoint == matched[w][1].endpoint
           errors == Errors(endpoint, req)
       IN  IF errors = {}
           THEN /\ args' = [args EXCEPT ![w] = Some(Values(endpoint, req))]
                /\ pc' = [pc EXCEPT ![w] = "validated"]
                /\ UNCHANGED response
           ELSE /\ response' = [response EXCEPT ![w] =
                        Some(Response(422, [detail |-> errors]))]
                /\ pc' = [pc EXCEPT ![w] = "done"]
                /\ UNCHANGED args
    /\ UNCHANGED <<apps, lmsPc, request, matched, invoked>>

\* the endpoint runs on the validated values and its result is the response
Invoke(w) ==
    /\ pc[w] = "validated"
    /\ LET endpoint == matched[w][1].endpoint
       IN  /\ invoked' = [invoked EXCEPT ![w] =
                    Some([endpoint |-> endpoint, args |-> args[w][1]])]
           /\ response' = [response EXCEPT ![w] =
                    Some(Response(200, Call(endpoint, args[w][1])))]
    /\ pc' = [pc EXCEPT ![w] = "done"]
    /\ UNCHANGED <<apps, lmsPc, request, matched, args>>

\* the response is sent; nothing of the request is kept
Send(w) ==
    /\ pc[w] = "done"
    /\ pc' = [pc EXCEPT ![w] = "idle"]
    /\ request' = [request EXCEPT ![w] = None]
    /\ matched' = [matched EXCEPT ![w] = None]
    /\ args' = [args EXCEPT ![w] = None]
    /\ invoked' = [invoked EXCEPT ![w] = None]
    /\ response' = [response EXCEPT ![w] = None]
    /\ UNCHANGED <<apps, lmsPc>>

Next ==
    \/ IncludeUsers
    \/ IncludeCourses
    \/ IncludeSections
    \/ Receive("w1", Requests)
    \/ Dispatch("w1")
    \/ Validate("w1")
    \/ Invoke("w1")
    \/ Send("w1")

Spec == Init /\ [][Next]_vars

\* two workers serve Items requests at the same time
NextConc ==
    \E w \in Workers :
        \/ Receive(w, ConcRequests)
        \/ Dispatch(w)
        \/ Validate(w)
        \/ Invoke(w)
        \/ Send(w)

SpecConc == Init /\ [][NextConc]_vars

----------------------------------------------------------------------------
(* Vocabulary of the properties *)

Done(w) == pc[w] = "done"

Req(w) == request[w][1]

Resp(w) == response[w][1]

IsGetRoot(w) ==
    /\ Req(w).app = "basic" /\ Req(w).method = "GET"
    /\ Req(w).path = Path("/", <<>>)

IsGetItem(w) ==
    /\ Req(w).app = "basic" /\ Req(w).method = "GET"
    /\ Req(w).path.prefix = "/items/" /\ Req(w).path.param # <<>>

IsPostItem(w) ==
    /\ Req(w).app = "basic" /\ Req(w).method = "POST"
    /\ Req(w).path = Path("/items/", <<>>)

\* the decimal text of an integer, written independently of the parser
RECURSIVE NatText(_)
NatText(n) ==
    IF n < 10 THEN <<Digits[n + 1]>>
    ELSE Append(NatText(n \div 10), Digits[(n % 10) + 1])

IntText(n) == IF n < 0 THEN <<"-">> \o NatText(0 - n) ELSE NatText(n)

RECURSIVE Pow10(_)
Pow10(k) == IF k = 0 THEN 1 ELSE 10 * Pow10(k - 1)

SegmentInts == (0 - Pow10(MaxSegLen)) .. Pow10(MaxSegLen)

QAccepted(q) == q = None \/ Len(q[1]) >= 3

----------------------------------------------------------------------------
(* C1: GET /items/{n} for an integer n, with q omitted or a q of at least  *)
(* three characters, answers 200 with exactly {"item_id": n, "q": q},      *)
(* q being null when it was omitted.                                       *)
C1_ReadItemEchoes ==
    \A w \in Workers :
        (Done(w) /\ IsGetItem(w) /\ QAccepted(Req(w).query)) =>
            \A n \in SegmentInts :
                Req(w).path.param = IntText(n) =>
                    response[w] = Some(Response(200,
                        [item_id |-> n, q |-> Req(w).query]))

C1_Witness ==
    \E w \in Workers :
        /\ Done(w) /\ IsGetItem(w)
        /\ Req(w).path.param = <<"-", "7">>
        /\ Req(w).query = Some(<<"a", "b", "a">>)
        /\ response[w] = Some(Response(200,
                [item_id |-> 0 - 7, q |-> Some(<<"a", "b", "a">>)]))

(* C2: GET /items/{n}?q=s with s shorter than three characters, the empty  *)
(* s included, ends in a validation failure (422), never in a 200, and     *)
(* read_item is not called.                                                *)
C2_ShortQueryRejected ==
    \A w \in Workers :
        (Done(w) /\ IsGetItem(w) /\ Req(w).query # None
                 /\ Len(Req(w).query[1]) < 3) =>
            /\ Resp(w).status = 422
            /\ <<"query", "q">> \in Resp(w).body.detail
            /\ invoked[w] = None

C2_Witness ==
    \E w \in Workers :
        /\ Done(w) /\ IsGetItem(w)
        /\ Req(w).path.param = <<"7">>
        /\ Req(w).query = Some(<<>>)
        /\ Resp(w).status = 422

(* C3: GET /items/{segment} with a segment that is not the text of an      *)
(* integer ends in a validation failure (422) whatever q is.               *)
C3_NonIntegerIdRejected ==
    \A w \in Workers :
        (Done(w) /\ IsGetItem(w) /\ ~ParsesAsInt(Req(w).path.param)) =>
            /\ Resp(w).status = 422
            /\ <<"path", "item_id">> \in Resp(w).body.detail
            /\ invoked[w] = None

C3_Witness ==
    \E w \in Workers :
        /\ Done(w) /\ IsGetItem(w)
        /\ Req(w).path.param = <<"7", "x">>
        /\ Req(w).query = Some(<<"a", "b", "b">>)
        /\ Resp(w).status = 422

ItemFieldOk(obj, f) == f \in DOMAIN obj /\ obj[f].type = "string"

(* C4: POST /items/ with the body {"name": a, "description": b}, a and b   *)
(* strings, answers 200 with exactly {"name": a, "description": b}.        *)
C4_CreateItemEchoes ==
    \A w \in Workers :
        (Done(w) /\ IsPostItem(w)) =>
            \A a, b \in TextsUpTo(StrChars, MaxStrLen) :
                Req(w).body = Some([name |-> JString(a), description |-> JString(b)])
                    => response[w] = Some(Response(200,
                            [name |-> a, description |-> b]))

C4_Witness ==
    \E w \in Workers :
        /\ Done(w) /\ IsPostItem(w)
        /\ Req(w).body = Some([name |-> JString(<<"p">>),
                               description |-> JString(<<"e">>)])
        /\ response[w] = Some(Response(200,
                [name |-> <<"p">>, description |-> <<"e">>]))

(* C5: POST /items/ with name or description missing from the body, or     *)
(* not a string, ends in a validation failure (422) that names the field;  *)
(* create_item is not called.                                              *)
C5_BadItemRejected ==
    \A w \in Workers :
        (Done(w) /\ IsPostItem(w)) =>
            IF Req(w).body = None
            THEN Resp(w).status = 422 /\ invoked[w] = None
            ELSE \A f \in ItemFields :
                    ~ItemFieldOk(Req(w).body[1], f) =>
                        /\ Resp(w).status = 422
                        /\ <<"body", f>> \in Resp(w).body.detail
                        /\ invoked[w] = None

C5_Witness ==
    \E w \in Workers :
        /\ Done(w) /\ IsPostItem(w)
        /\ Req(w).body = Some([name |-> JString(<<"p">>), description |-> JNumber(<<"7">>)])
        /\ Resp(w).status = 422
        /\ Resp(w).body.detail = {<<"body", "description">>}

(* C6: GET / answers 200 with exactly {"Hello": "World"} whatever the      *)
(* query string is.                                                        *)
C6_RootIsConstant ==
    \A w \in Workers :
        (Done(w) /\ IsGetRoot(w)) =>
            response[w] = Some(Response(200, [Hello |-> "World"]))

C6_Witness ==
    \E w \in Workers :
        /\ Done(w) /\ IsGetRoot(w)
        /\ Req(w).query = Some(<<"a">>)
        /\ response[w] = Some(Response(200, [Hello |-> "World"]))

(* C10: a POST /items/ whose body has string name and description answers  *)
(* 200 with a body of exactly the keys name and description, also when the *)
(* request carries a further field.                                        *)
C10_ExtraFieldsIgnored ==
    \A w \in Workers :
        (Done(w) /\ IsPostItem(w) /\ Req(w).body # None
                 /\ \A f \in ItemFields : ItemFieldOk(Req(w).body[1], f)) =>
            /\ Resp(w).status = 200
            /\ DOMAIN Resp(w).body = {"name", "description"}

C10_Witness ==
    \E w \in Workers :
        /\ Done(w) /\ IsPostItem(w)
        /\ Req(w).body = Some([name |-> JString(<<"p">>), description |-> JString(<<>>),
                               price |-> JNumber(<<"7">>)])
        /\ response[w] = Some(Response(200, [name |-> <<"p">>, description |-> <<>>]))

\* what the declarations of an endpoint accept, stated on the request
InputValid(endpoint, req) ==
    CASE endpoint = "read_item" ->
            ParsesAsInt(req.path.param) /\ QAccepted(req.query)
      [] endpoint = "create_item" ->
            req.body # None /\ \A f \in ItemFields : ItemFieldOk(req.body[1], f)
      [] OTHER -> TRUE

(* C8: on the Items service an endpoint is called only after validation    *)
(* and only on input that passed it: read_item with an integer item_id and *)
(* q absent or of at least three characters, create_item with an Item of   *)
(* two strings; a request that fails validation gets the 422 response and  *)
(* its endpoint is never called.                                           *)
C8_ValidationPrecedesHandler ==
    \A w \in Workers :
        (request[w] # None /\ Req(w).app = "basic") =>
            /\ invoked[w] # None =>
                /\ args[w] # None
                /\ invoked[w][1].args = args[w][1]
                /\ invoked[w][1].endpoint = matched[w][1].endpoint
                /\ InputValid(invoked[w][1].endpoint, Req(w))
                /\ invoked[w][1].endpoint = "read_item" =>
                    /\ invoked[w][1].args.item_id \in Int
                    /\ QAccepted(invoked[w][1].args.q)
                /\ invoked[w][1].endpoint = "create_item" =>
                    DOMAIN invoked[w][1].args.item = ItemFields
            /\ (matched[w] # None /\ ~InputValid(matched[w][1].endpoint, Req(w))) =>
                /\ invoked[w] = None
                /\ args[w] = None
                /\ pc[w] \in {"matched", "done"}
                /\ Done(w) => Resp(w).status = 422

C8_Witness ==
    \E w \in Workers :
        /\ Done(w) /\ IsGetItem(w)
        /\ Req(w).path.param = <<"x">>
        /\ Req(w).query = Some(<<"a", "b">>)
        /\ Resp(w).body.detail = {<<"path", "item_id">>, <<"query", "q">>}
        /\ invoked[w] = None

(* C7: the Items service keeps nothing between requests: with requests of  *)
(* two workers interleaved in any order, two equal requests get equal      *)
(* responses, and the application object is what it was at start-up.       *)
C7_Stateless ==
    /\ apps.basic = basic_app
    /\ \A v, w \in Workers :
        (Done(v) /\ Done(w) /\ request[v] = request[w]) => response[v] = response[w]

C7_Witness ==
    /\ Done("w1") /\ Done("w2")
    /\ IsPostItem("w1")
    /\ request["w1"] = request["w2"]
    /\ Resp("w1").status = 200
    /\ response["w1"] = response["w2"]

----------------------------------------------------------------------------
(* The LMS application *)

LmsMounted == SelectSeq(apps.lms.routes, LAMBDA r : r.module \in LmsGroups)

DocPaths == {"/openapi.json", "/docs", "/docs/oauth2-redirect", "/redoc"}

LmsShell ==
    /\ apps.lms.title = "Fast API LMS"
    /\ apps.lms.version = "0.0.1"
    /\ lmsPc = "serving" =>
        /\ [i \in 1..Len(LmsMounted) |-> LmsMounted[i].module]
                = <<"api.users", "api.courses", "api.sections">>
        /\ LmsMounted = users_router \o courses_router \o sections_router
    /\ \A i \in 1..Len(apps.lms.routes) :
            apps.lms.routes[i].module \in LmsGroups \cup {"fastapi"}

LmsServed(w) ==
    /\ request[w] # None /\ Req(w).app = "lms"
    /\ Done(w) /\ Resp(w).status = 200

LmsRefused(w) ==
    /\ request[w] # None /\ Req(w).app = "lms"
    /\ Done(w) /\ Resp(w).status # 200

====
